---- MODULE Spec2Model ----
(***************************************************************************)
(* Model of the conversation memory store of the RAG service               *)
(* (src/src/utils/conversation_memory.py, class ConversationMemory).       *)
(*                                                                         *)
(* The store is a Python dict id -> conversation record.  A dict keeps its *)
(* insertion order and sorted() is stable, so the order matters for the    *)
(* eviction pass: the dict is modelled as a sequence of records with       *)
(* pairwise distinct ids, in insertion order.  Timestamps are              *)
(* datetime.now().isoformat() strings, which compare like the instants     *)
(* they denote; they are modelled as the reading of a clock.  In Spec the   *)
(* clock never runs backwards; in SpecWallClock it can be set back, as the  *)
(* naive local time that datetime.now() reads can be.                      *)
(*                                                                         *)
(* The methods of the store are atomic steps where the callers come one    *)
(* after the other; SpecThreads has the threads and the lock of the        *)
(* methods, SpecChat and SpecChatSequential the handler of the chat        *)
(* endpoint (src/api.py), which makes several calls of the store.          *)
(***************************************************************************)
EXTENDS Integers, Sequences, FiniteSets, TLC

\* ------------------------------------------------------------------ bounds
MaxConvLimit == 2      \* max_conversations is drawn from 0..MaxConvLimit
MaxMsgLimit == 1       \* max_messages_per_conversation from 0..MaxMsgLimit
MaxClock == 1          \* the clock reads 0..MaxClock
MaxUuid == 2           \* number of uuid4 values that can be drawn
MaxStored == 2         \* cap on the number of messages the store holds
MaxCreated == 3        \* cap on the count of consecutive creations
MaxMessages == 6       \* messages of the conversation SpecOneConversation reads
MaxThreads == 2        \* threads that call the store at the same time
MaxRequests == 2       \* chat requests the service receives

\* ---------------------------------------------------------- input domains
None == "<None>"
UuidPool == <<"u1", "u2", "u3", "u4", "u5", "u6">>
Uuids == {UuidPool[i] : i \in 1..MaxUuid}
CallerNames == {"x"}
Roles == {"user"}
Contents == {<<"a">>}
EmptyDict == [k \in {} |-> 0]
MetadataArgs == {[k \in {"topic"} |-> 1]}
MessageMetadataArgs == {None}
NoLimit == -1
LimitArgs == {NoLimit, 0, 1}

VARIABLES
    conversations,                  \* self.conversations
    max_conversations,              \* self.max_conversations
    max_messages_per_conversation,  \* self.max_messages_per_conversation
    storage,                        \* the file conversation_memory.json
    disk,                           \* what the file system does to a write
    now,                            \* reading of datetime.now()
    generated,                      \* uuid4 values drawn so far
    created,                        \* count of consecutive creations
    ret,                            \* the last call: name, argument, result
    lock,                           \* self.lock: the thread that holds it
    threads,                        \* where each calling thread stands
    handlers                        \* where each chat request stands

vars == <<conversations, max_conversations, max_messages_per_conversation,
          storage, disk, now, generated, created, ret, lock, threads,
          handlers>>

\* --------------------------------------------------------------- helpers
Min(a, b) == IF a <= b THEN a ELSE b
Max(a, b) == IF a >= b THEN a ELSE b

\* bool(x) of an Optional[str]: None and "" are falsy
Truthy(x) == x \notin {None, ""}

\* the keys of the dict
Ids(convs) == {convs[i].id : i \in 1..Len(convs)}

\* conversation_id in self.conversations
Known(convs, id) == id \in Ids(convs)

\* self.conversations[id]
Lookup(convs, id) == convs[CHOOSE i \in 1..Len(convs) : convs[i].id = id]

\* s[-n:] of a Python list, for n >= 0: s[-0:] is s[0:], the whole list
PySliceLast(s, n) ==
    IF n = 0 \/ n >= Len(s) THEN s
    ELSE SubSeq(s, Len(s) - n + 1, Len(s))

\* s[:n] of a Python list, for n >= 0
PySliceFirst(s, n) == SubSeq(s, 1, Min(n, Len(s)))

\* mutant: the record of an existing key is written over the first entry
DictSet_first(convs, id, rec) ==
    IF Known(convs, id)
    THEN [i \in 1..Len(convs) |-> IF i = 1 THEN rec ELSE convs[i]]
    ELSE Append(convs, rec)

\* d[id] = rec of a dict: an existing key keeps its position, a new key
\* goes to the end
DictSet(convs, id, rec) ==
    IF Known(convs, id)
    THEN [i \in 1..Len(convs) |-> IF convs[i].id = id THEN rec ELSE convs[i]]
    ELSE Append(convs, rec)

\* mutant: the other conversations go as well
DictDel_all(convs, id) == <<>>

\* del d[id]
DictDel(convs, id) == SelectSeq(convs, LAMBDA r : r.id # id)

\* mutant: the new mapping replaces the old one
DictUpdate_replacing(a, b) == b

\* a.update(b) of two dicts
DictUpdate(a, b) ==
    [k \in DOMAIN a \cup DOMAIN b |-> IF k \in DOMAIN b THEN b[k] ELSE a[k]]

\* d.get(key, default) of a dict
Get(d, key, default) == IF key \in DOMAIN d THEN d[key] ELSE default

\* sep.join(parts), the strings being sequences of characters
RECURSIVE Join(_, _)
Join(parts, sep) ==
    IF parts = <<>> THEN <<>>
    ELSE IF Len(parts) = 1 THEN parts[1]
    ELSE parts[1] \o sep \o Join(Tail(parts), sep)

\* -------------------------------------------------- ConversationMemory
\* mutant: an id source that can repeat itself
_generate_conversation_id_repeating(drawn) == Uuids

\* uuid.uuid4(): a value that was never drawn before (which one is
\* immaterial: the next of the pool)
_generate_conversation_id(drawn) ==
    {UuidPool[i] : i \in {Cardinality(drawn) + 1} \cap (1..MaxUuid)}

\* mutant: newest first
RECURSIVE SortedByLastUpdated_descending(_)
SortedByLastUpdated_descending(s) ==
    IF s = <<>> THEN <<>>
    ELSE LET t == SortedByLastUpdated_descending(SubSeq(s, 1, Len(s) - 1))
             r == s[Len(s)]
             n == Cardinality({i \in 1..Len(t) :
                                 t[i].last_updated >= r.last_updated})
         IN  SubSeq(t, 1, n) \o <<r>> \o SubSeq(t, n + 1, Len(t))

\* the sort key of line 46: x[1].get('last_updated', datetime.min)
DatetimeMin == -1
SortKey(r) == Get(r, "last_updated", DatetimeMin)

\* sorted(items, key=last_updated): stable, ascending
RECURSIVE SortedByLastUpdated(_)
SortedByLastUpdated(s) ==
    IF s = <<>> THEN <<>>
    ELSE LET t == SortedByLastUpdated(SubSeq(s, 1, Len(s) - 1))
             r == s[Len(s)]
             n == Cardinality({i \in 1..Len(t) : SortKey(t[i]) <= SortKey(r)})
         IN  SubSeq(t, 1, n) \o <<r>> \o SubSeq(t, n + 1, Len(t))

\* the eviction pass raises TypeError: it sorts, and the keys are of both
\* kinds, isoformat strings and datetime.min, which do not compare
_cleanup_old_conversations_raises(convs, maxc) ==
    /\ Len(convs) > maxc
    /\ \E i, j \in 1..Len(convs) :
          /\ "last_updated" \in DOMAIN convs[i]
          /\ "last_updated" \notin DOMAIN convs[j]

\* mutant: the pass stops one conversation early
_cleanup_old_conversations_one_short(convs, maxc) ==
    IF Len(convs) <= maxc THEN convs
    ELSE LET sorted_conversations == SortedByLastUpdated(convs)
             to_remove == Len(convs) - maxc - 1
             doomed == PySliceFirst(sorted_conversations, to_remove)
             gone == {doomed[i].id : i \in 1..Len(doomed)}
         IN  SelectSeq(convs, LAMBDA r : r.id \notin gone)

_cleanup_old_conversations(convs, maxc) ==
    IF Len(convs) <= maxc THEN convs
    ELSE LET sorted_conversations == SortedByLastUpdated(convs)
             to_remove == Len(convs) - maxc
             doomed == PySliceFirst(sorted_conversations, to_remove)
             gone == {doomed[i].id : i \in 1..Len(doomed)}
         IN  SelectSeq(convs, LAMBDA r : r.id \notin gone)

\* mutant: the trim empties the conversation
_cleanup_old_messages_clearing(convs, id, maxm) ==
    IF ~Known(convs, id) THEN convs
    ELSE LET messages == Get(Lookup(convs, id), "messages", <<>>)
         IN  IF Len(messages) <= maxm THEN convs
             ELSE DictSet(convs, id,
                    [Lookup(convs, id) EXCEPT !.messages = <<>>])

\* mutant: the trim keeps the oldest messages
_cleanup_old_messages_keeps_oldest(convs, id, maxm) ==
    IF ~Known(convs, id) THEN convs
    ELSE LET messages == Get(Lookup(convs, id), "messages", <<>>)
         IN  IF Len(messages) <= maxm THEN convs
             ELSE DictSet(convs, id,
                    [Lookup(convs, id) EXCEPT
                        !.messages = PySliceFirst(messages, maxm)])

_cleanup_old_messages(convs, id, maxm) ==
    IF ~Known(convs, id) THEN convs
    ELSE LET messages == Get(Lookup(convs, id), "messages", <<>>)
         IN  IF Len(messages) <= maxm THEN convs
             ELSE DictSet(convs, id,
                    [Lookup(convs, id) EXCEPT
                        !.messages = PySliceLast(messages, maxm)])

\* the file: absent, unparseable, or one JSON document
Missing == [status |-> "missing", data |-> <<>>]
Corrupt == [status |-> "corrupt", data |-> <<>>]

\* The values of a metadata dict are the caller's (Dict[str, Any]).  A
\* number of the model stands for a Python value: PyTuple for a tuple such
\* as (1, 2), PyList for the list of the same items, PySet for a set, any
\* other number for itself.
PyTuple == 3
PyList == 4
PySet == 5

\* json.dump of one value: a tuple is written as an array, which json.load
\* reads as a list; a set has no JSON type and makes the encoder raise
\* TypeError
JsonValue(v) == IF v = PyTuple THEN PyList ELSE v
JsonDict(d) == [k \in DOMAIN d |-> JsonValue(d[k])]
JsonMessage(m) ==
    [k \in DOMAIN m |-> IF k = "metadata" THEN JsonDict(m[k]) ELSE m[k]]
JsonConversation(c) ==
    [k \in DOMAIN c |->
       CASE k = "metadata" -> JsonDict(c[k])
         [] k = "messages" -> [i \in 1..Len(c[k]) |-> JsonMessage(c[k][i])]
         [] OTHER -> c[k]]

\* the metadata dicts of the store: of the conversations and of their
\* messages
MetadataDicts(convs) ==
    {Get(convs[i], "metadata", EmptyDict) : i \in 1..Len(convs)}
      \cup UNION {{Get(convs[i], "messages", <<>>)[j].metadata :
                     j \in 1..Len(Get(convs[i], "messages", <<>>))} :
                   i \in 1..Len(convs)}
Serialisable(convs) ==
    \A d \in MetadataDicts(convs) : \A k \in DOMAIN d : d[k] # PySet

\* json.dump / json.load of the dict: strings, numbers, lists and
\* string-keyed dicts come back as they went in, in the same key order.
\* The encoder writes as it goes: when it raises, the file holds the part
\* of the document before the value it could not write.
JsonDump(convs) ==
    IF Serialisable(convs)
    THEN [status |-> "ok",
          data |-> [i \in 1..Len(convs) |-> JsonConversation(convs[i])]]
    ELSE Corrupt
JsonLoad(file) == file.data

\* mutant: the call does not reach the file
save_to_storage_skipped(convs, file, d) == file

\* save_to_storage: the file the call leaves behind.  On a disk that
\* refuses the open(.., 'w') the file stays as it was; on a full disk the
\* open has emptied the file and the dump leaves a partial document.  The
\* exception is swallowed in both cases.
save_to_storage(convs, file, d) ==
    CASE d = "ok" -> JsonDump(convs)
      [] d = "denied" -> file
      [] d = "full" -> Corrupt

\* load_from_storage, called on the empty dict of __init__
load_from_storage(file) ==
    IF file.status = "ok" THEN JsonLoad(file) ELSE <<>>

\* mutant: a known id is started afresh
Resumes_never(convs, id) == FALSE

\* start_conversation, line 77: conversation_id and conversation_id in
\* self.conversations
Resumes(convs, id) == Truthy(id) /\ Known(convs, id)

\* mutant: the caller's id is ignored
ChosenId_generated(id, drawn) == _generate_conversation_id(drawn)

\* start_conversation, line 81: conversation_id or
\* self._generate_conversation_id()
ChosenId(id, drawn) ==
    IF Truthy(id) THEN {id} ELSE _generate_conversation_id(drawn)

NewConversation(id, t1, t2) ==
    [id |-> id, created_at |-> t1, last_updated |-> t2,
     messages |-> <<>>, context |-> EmptyDict, metadata |-> EmptyDict]

NewMessage(role, content, t, metadata) ==
    [role |-> role, content |-> content, timestamp |-> t,
     metadata |-> IF metadata = None THEN EmptyDict ELSE metadata]

\* mutant: the contents go into the summary at full length
_create_context_summary_uncut(messages) ==
    IF messages = <<>> THEN <<"No previous conversation context.">>
    ELSE LET recent_messages == IF Len(messages) > 3
                                THEN PySliceLast(messages, 3) ELSE messages
             context_parts ==
                [i \in 1..Len(recent_messages) |->
                   <<Get(recent_messages[i], "role", "unknown"), ": ">>
                     \o Get(recent_messages[i], "content", <<>>)]
         IN  Join(context_parts, <<" | ">>)

\* _create_context_summary.  A string is a sequence of characters; a role,
\* the fixed sentence and the two separators stand as one character each.
SummaryCut == 200
NoContext == <<"No previous conversation context.">>
_create_context_summary(messages) ==
    IF messages = <<>> THEN NoContext
    ELSE LET recent_messages == IF Len(messages) > 3
                                THEN PySliceLast(messages, 3) ELSE messages
             context_parts ==
                [i \in 1..Len(recent_messages) |->
                   <<Get(recent_messages[i], "role", "unknown"), ": ">>
                     \o PySliceFirst(Get(recent_messages[i], "content", <<>>),
                                     SummaryCut)]
         IN  Join(context_parts, <<" | ">>)

\* the value get_conversation_history returns
HistoryOf(convs, id, limit) ==
    IF ~Known(convs, id) THEN <<>>
    ELSE LET messages == Get(Lookup(convs, id), "messages", <<>>)
         IN  IF limit # NoLimit /\ limit # 0 THEN PySliceLast(messages, limit)
             ELSE messages

\* the value get_conversation_context returns
ContextOf(convs, id) ==
    IF ~Known(convs, id) THEN EmptyDict
    ELSE LET conv == Lookup(convs, id)
             messages == Get(conv, "messages", <<>>)
         IN  [conversation_id |-> id,
              message_count |-> Len(messages),
              last_updated |-> Get(conv, "last_updated", None),
              recent_messages |-> IF messages # <<>>
                                  THEN PySliceLast(messages, 5) ELSE <<>>,
              context_summary |-> _create_context_summary(messages),
              metadata |-> Get(conv, "metadata", EmptyDict)]

\* ids a caller can pass: a name of its own or an id the store handed out
\* earlier; start_conversation also takes no id or the empty string
IdArgs == CallerNames \cup generated
OptionalIdArgs == {None, ""} \cup IdArgs

\* number of messages in the whole store
RECURSIVE Stored(_)
Stored(convs) ==
    IF convs = <<>> THEN 0
    ELSE Len(Get(convs[1], "messages", <<>>)) + Stored(Tail(convs))

\* what a call leaves to its caller: the value it returned, or the exception
\* it raised (exc); limit is the second argument of get_conversation_history
Call(op, arg, val) ==
    [op |-> op, arg |-> arg, limit |-> NoLimit, val |-> val, exc |-> None]
Raise(op, arg, exc) ==
    [op |-> op, arg |-> arg, limit |-> NoLimit, val |-> None, exc |-> exc]

limits == <<max_conversations, max_messages_per_conversation>>

\* the threads of the process: those that call the store directly and the
\* handlers of chat requests, which FastAPI runs on a thread pool since the
\* endpoint is a plain def
ThreadNames == <<"t1", "t2", "t3", "t4">>
Threads == {ThreadNames[i] : i \in 1..MaxThreads}
Requests == 1..MaxRequests
concurrent == <<lock, threads, handlers>>

\* a thread that is in no call; a chat request that has not arrived
IdleThread == [pc |-> "idle", op |-> None]
NewRequest ==
    [pc |-> "new", request |-> None, conversation_id |-> None,
     context |-> EmptyDict, enhanced_query |-> <<>>]

\* a process in which no thread has called yet and no request has arrived
NoThreads ==
    /\ lock = None
    /\ threads = [t \in Threads |-> IdleThread]
    /\ handlers = [r \in Requests |-> NewRequest]

\* ------------------------------------------------------------------ Init
\* __init__ of the first process: no file yet
Init ==
    /\ max_conversations \in 0..MaxConvLimit
    /\ max_messages_per_conversation \in 0..MaxMsgLimit
    /\ storage = Missing
    /\ disk = "ok"
    /\ conversations = load_from_storage(storage)
    /\ now = 0
    /\ generated = {}
    /\ created = 0
    /\ ret = Call("__init__", None, None)
    /\ NoThreads

\* ---------------------------------------------------------------- actions
\* An operation of the store is written twice: with its arguments, as what
\* one call does to the store (StartConversation(id), AddMessage(..)), and
\* under the name of the method, as a call by some caller with any
\* arguments, in a process where no other thread is at work.

\* time passes between two calls
Tick ==
    /\ now < MaxClock
    /\ now' = now + 1
    /\ UNCHANGED <<conversations, limits, storage, disk, generated, created,
                   ret, concurrent>>

\* the file system starts or stops refusing writes (no step of Spec: there
\* the disk takes every write)
DiskChanges ==
    /\ disk' \in {"ok", "denied", "full"} \ {disk}
    /\ UNCHANGED <<conversations, limits, storage, now, generated, created,
                   ret, concurrent>>

\* the process ends and a new one constructs the store, possibly with other
\* limits, from the file the old one left.  created counts the creating
\* start_conversation calls since the last construction, delete or clear.
__init__ ==
    /\ max_conversations' \in 0..MaxConvLimit
    /\ max_messages_per_conversation' \in 0..MaxMsgLimit
    /\ conversations' = load_from_storage(storage)
    /\ created' = 0
    /\ ret' = Call("__init__", None, None)
    /\ UNCHANGED <<storage, disk, now, generated, concurrent>>

StartConversation(conversation_id) ==
    IF Resumes(conversations, conversation_id)
    THEN /\ ret' = Call("start_conversation", conversation_id,
                        conversation_id)
         /\ UNCHANGED <<conversations, limits, storage, disk, now,
                        generated, created>>
    ELSE \E conv_id \in ChosenId(conversation_id, generated) :
           LET added == DictSet(conversations, conv_id,
                                NewConversation(conv_id, now, now))
           IN  /\ IF _cleanup_old_conversations_raises(added,
                                                        max_conversations)
                  THEN /\ conversations' = added
                       /\ storage' = storage
                       /\ ret' = Raise("start_conversation",
                                       conversation_id, "TypeError")
                  ELSE /\ conversations' =
                             _cleanup_old_conversations(added,
                                                        max_conversations)
                       /\ storage' = save_to_storage(conversations',
                                                     storage, disk)
                       /\ ret' = Call("start_conversation",
                                      conversation_id, conv_id)
               /\ generated' = IF Truthy(conversation_id) THEN generated
                               ELSE generated \cup {conv_id}
               /\ created' = created + 1
               /\ UNCHANGED <<limits, disk, now>>

start_conversation ==
    \E conversation_id \in OptionalIdArgs :
      /\ StartConversation(conversation_id)
      /\ created' <= MaxCreated
      /\ UNCHANGED concurrent

AddMessage(conversation_id, role, content, metadata) ==
    IF ~Known(conversations, conversation_id)
    THEN /\ ret' = Call("add_message", conversation_id, FALSE)
         /\ UNCHANGED <<conversations, limits, storage, disk, now,
                        generated, created>>
    ELSE IF "messages" \notin DOMAIN Lookup(conversations, conversation_id)
    THEN /\ ret' = Raise("add_message", conversation_id, "KeyError")
         /\ UNCHANGED <<conversations, limits, storage, disk, now,
                        generated, created>>
    ELSE LET conv == Lookup(conversations, conversation_id)
             message == NewMessage(role, content, now, metadata)
             appended == DictSet(conversations, conversation_id,
                           [conv EXCEPT
                              !.messages = Append(@, message),
                              !.last_updated = now])
         IN  /\ conversations' =
                   _cleanup_old_messages(appended, conversation_id,
                                         max_messages_per_conversation)
             /\ storage' = save_to_storage(conversations', storage, disk)
             /\ ret' = Call("add_message", conversation_id, TRUE)
             /\ UNCHANGED <<limits, disk, now, generated, created>>

add_message ==
    \E conversation_id \in IdArgs, role \in Roles, content \in Contents,
       metadata \in MessageMetadataArgs :
      /\ AddMessage(conversation_id, role, content, metadata)
      /\ Stored(conversations') <= MaxStored
      /\ UNCHANGED concurrent

GetConversationHistory(conversation_id, limit) ==
    /\ ret' = [Call("get_conversation_history", conversation_id,
                    HistoryOf(conversations, conversation_id, limit))
               EXCEPT !.limit = limit]
    /\ UNCHANGED <<conversations, limits, storage, disk, now, generated,
                   created>>

get_conversation_history ==
    \E conversation_id \in IdArgs, limit \in LimitArgs :
      /\ GetConversationHistory(conversation_id, limit)
      /\ UNCHANGED concurrent

GetConversationContext(conversation_id) ==
    /\ ret' = Call("get_conversation_context", conversation_id,
                   ContextOf(conversations, conversation_id))
    /\ UNCHANGED <<conversations, limits, storage, disk, now, generated,
                   created>>

get_conversation_context ==
    \E conversation_id \in IdArgs :
      /\ GetConversationContext(conversation_id)
      /\ UNCHANGED concurrent

UpdateConversationMetadata(conversation_id, metadata) ==
    IF ~Known(conversations, conversation_id)
    THEN /\ ret' = Call("update_conversation_metadata", conversation_id,
                        FALSE)
         /\ UNCHANGED <<conversations, limits, storage, disk, now,
                        generated, created>>
    ELSE IF "metadata" \notin DOMAIN Lookup(conversations, conversation_id)
    THEN /\ ret' = Raise("update_conversation_metadata", conversation_id,
                         "KeyError")
         /\ UNCHANGED <<conversations, limits, storage, disk, now,
                        generated, created>>
    ELSE LET conv == Lookup(conversations, conversation_id)
         IN  /\ conversations' =
                   DictSet(conversations, conversation_id,
                      [conv EXCEPT
                         !.metadata = DictUpdate(@, metadata),
                         !.last_updated = now])
             /\ storage' = save_to_storage(conversations', storage, disk)
             /\ ret' = Call("update_conversation_metadata",
                            conversation_id, TRUE)
             /\ UNCHANGED <<limits, disk, now, generated, created>>

update_conversation_metadata ==
    \E conversation_id \in IdArgs, metadata \in MetadataArgs :
      /\ UpdateConversationMetadata(conversation_id, metadata)
      /\ UNCHANGED concurrent

\* mutant: the result does not tell whether the id was known
delete_conversation_always_true ==
    \E conversation_id \in IdArgs :
      IF Known(conversations, conversation_id)
      THEN /\ conversations' = DictDel(conversations, conversation_id)
           /\ storage' = save_to_storage(conversations', storage, disk)
           /\ created' = 0
           /\ ret' = Call("delete_conversation", conversation_id, TRUE)
           /\ UNCHANGED <<limits, disk, now, generated, concurrent>>
      ELSE /\ ret' = Call("delete_conversation", conversation_id, TRUE)
           /\ UNCHANGED <<conversations, limits, storage, disk, now,
                          generated, created, concurrent>>

DeleteConversation(conversation_id) ==
    IF Known(conversations, conversation_id)
    THEN /\ conversations' = DictDel(conversations, conversation_id)
         /\ storage' = save_to_storage(conversations', storage, disk)
         /\ created' = 0
         /\ ret' = Call("delete_conversation", conversation_id, TRUE)
         /\ UNCHANGED <<limits, disk, now, generated>>
    ELSE /\ ret' = Call("delete_conversation", conversation_id, FALSE)
         /\ UNCHANGED <<conversations, limits, storage, disk, now,
                        generated, created>>

delete_conversation ==
    \E conversation_id \in IdArgs :
      /\ DeleteConversation(conversation_id)
      /\ UNCHANGED concurrent

GetAllConversations ==
    /\ ret' = Call("get_all_conversations", None, conversations)
    /\ UNCHANGED <<conversations, limits, storage, disk, now, generated,
                   created>>

get_all_conversations ==
    /\ GetAllConversations
    /\ UNCHANGED concurrent

ClearAllConversations ==
    /\ conversations' = <<>>
    /\ storage' = save_to_storage(conversations', storage, disk)
    /\ created' = 0
    /\ ret' = Call("clear_all_conversations", None, None)
    /\ UNCHANGED <<limits, disk, now, generated>>

clear_all_conversations ==
    /\ ClearAllConversations
    /\ UNCHANGED concurrent

Next ==
    \/ Tick
    \/ __init__
    \/ start_conversation
    \/ add_message
    \/ get_conversation_history
    \/ get_conversation_context
    \/ update_conversation_metadata
    \/ delete_conversation
    \/ get_all_conversations
    \/ clear_all_conversations

\* the store on a disk that takes every write
Spec == Init /\ [][Next]_vars

\* the store on a disk that refuses every write (a read-only directory) or
\* is full
InitDisk ==
    /\ max_conversations \in 0..MaxConvLimit
    /\ max_messages_per_conversation \in 0..MaxMsgLimit
    /\ storage = Missing
    /\ disk \in {"denied", "full"}
    /\ conversations = load_from_storage(storage)
    /\ now = 0
    /\ generated = {}
    /\ created = 0
    /\ ret = Call("__init__", None, None)
    /\ NoThreads

SpecDisk == InitDisk /\ [][Next]_vars

\* a file that holds valid JSON of another schema: {"x": {}}, a mapping
\* whose record has none of the fields of a conversation
WrongSchema == [status |-> "ok", data |-> <<[id |-> "x"]>>]

\* the first process finds a file it did not write: none, one that does not
\* parse, or one of another schema
InitStartup ==
    /\ max_conversations \in 0..MaxConvLimit
    /\ max_messages_per_conversation \in 0..MaxMsgLimit
    /\ storage \in {Missing, Corrupt, WrongSchema}
    /\ disk = "ok"
    /\ conversations = load_from_storage(storage)
    /\ now = 0
    /\ generated = {}
    /\ created = 0
    /\ ret = Call("__init__", None, None)
    /\ NoThreads

SpecStartup == InitStartup /\ [][Next]_vars

\* datetime.now() reads the wall clock in local time: it goes back when the
\* clock is set (an NTP step, an operator) and at the end of daylight
\* saving time
ClockSetBack ==
    /\ now > 0
    /\ now' = now - 1
    /\ UNCHANGED <<conversations, limits, storage, disk, generated, created,
                   ret, concurrent>>

NextWallClock ==
    \/ Tick
    \/ ClockSetBack
    \/ start_conversation
    \/ add_message
    \/ get_conversation_context
    \/ update_conversation_metadata
    \/ delete_conversation
    \/ clear_all_conversations

\* one process of the store under a wall clock that can be set back
SpecWallClock == Init /\ [][NextWallClock]_vars

\* ------------------------------------------------- what a caller holds
\* The caller of a read holds the object the method returned (ret.val).
\* get_conversation_history returns the store's own list when limit is
\* falsy and a slice of it, a new list, otherwise;
\* get_conversation_context builds a new dict around the conversation's own
\* metadata dict; get_all_conversations returns dict.copy(), a new mapping
\* of the store's own records.  A write through an object that the store
\* shares is a write to the store, with no lock, trim, timestamp or save.
ForeignMessage == NewMessage("system", <<"a">>, 0, None)
ForeignMetadata == [k \in {"seen"} |-> 1]

\* history.append(m) on the list get_conversation_history returned
AppendsToHistory ==
    /\ ret.op = "get_conversation_history"
    /\ Known(conversations, ret.arg)
    /\ LET conv == Lookup(conversations, ret.arg)
           sliced == ret.limit # NoLimit /\ ret.limit # 0
       IN  conversations' =
              IF sliced THEN conversations
              ELSE DictSet(conversations, ret.arg,
                     [conv EXCEPT !.messages = Append(@, ForeignMessage)])
    /\ ret' = Call("caller", ret.arg, Append(ret.val, ForeignMessage))

\* context['metadata'].update(m) on the dict get_conversation_context
\* returned
UpdatesContextMetadata ==
    /\ ret.op = "get_conversation_context"
    /\ Known(conversations, ret.arg)
    /\ LET conv == Lookup(conversations, ret.arg)
       IN  conversations' =
              DictSet(conversations, ret.arg,
                 [conv EXCEPT !.metadata = DictUpdate(@, ForeignMetadata)])
    /\ ret' = Call("caller", ret.arg,
                   [ret.val EXCEPT
                      !.metadata = DictUpdate(@, ForeignMetadata)])

\* del all[id] on the mapping get_all_conversations returned: the mapping
\* is a copy
DeletesFromAll ==
    /\ ret.op = "get_all_conversations"
    /\ \E id \in Ids(conversations) :
          ret' = Call("caller", id, DictDel(ret.val, id))
    /\ conversations' = conversations

\* all[id]['messages'].clear() on a record of that mapping: the records
\* are the store's
ClearsMessagesOfAll ==
    /\ ret.op = "get_all_conversations"
    /\ \E id \in Ids(conversations) :
          LET conv == Lookup(conversations, id)
          IN  /\ conversations' =
                    DictSet(conversations, id, [conv EXCEPT !.messages = <<>>])
              /\ ret' = Call("caller", id, conversations')

\* the caller writes to what the last read returned
CallerMutates ==
    /\ ret.exc = None
    /\ \/ AppendsToHistory
       \/ UpdatesContextMetadata
       \/ DeletesFromAll
       \/ ClearsMessagesOfAll
    /\ Stored(conversations') <= MaxStored
    /\ UNCHANGED <<limits, storage, disk, now, generated, created,
                   concurrent>>

NextCaller ==
    \/ start_conversation
    \/ add_message
    \/ get_conversation_history
    \/ get_conversation_context
    \/ get_all_conversations
    \/ CallerMutates

\* one process of the store and a caller that writes to what it was handed
SpecCaller == Init /\ [][NextCaller]_vars

\* ------------------------------------------- one conversation, many messages
\* The defaults of __init__: with them a conversation holds up to 50
\* messages, more than the read operations window (5, 3) or cut (200).
DefaultMaxConversations == 100
DefaultMaxMessages == 50

\* a content one character longer than the cut of the summary
LongContent == [i \in 1..SummaryCut + 1 |-> "b"]
StoredMessages ==
    {NewMessage("user", <<"a">>, 0, None),
     NewMessage("assistant", <<"a">>, 0, None),
     NewMessage("assistant", LongContent, 0, None)}
StoredMetadata == {EmptyDict, [k \in {"topic", "lang"} |-> 2]}

\* a store that holds the conversation "x" after a run of add_message and
\* update_conversation_metadata calls, saved by the last of them
InitOneConversation ==
    /\ max_conversations = DefaultMaxConversations
    /\ max_messages_per_conversation = DefaultMaxMessages
    /\ \E n \in 0..MaxMessages :
         \E messages \in [1..n -> StoredMessages],
            metadata \in StoredMetadata :
            conversations =
               <<[NewConversation("x", 0, 0) EXCEPT !.messages = messages,
                                                    !.metadata = metadata]>>
    /\ storage = JsonDump(conversations)
    /\ disk = "ok"
    /\ now = 0
    /\ generated = {}
    /\ created = 1
    /\ ret = Call("start_conversation", "x", "x")
    /\ NoThreads

NextOneConversation ==
    \/ Tick
    \/ get_conversation_history
    \/ get_conversation_context
    \/ update_conversation_metadata

\* the read operations and the metadata update on one conversation
SpecOneConversation == InitOneConversation /\ [][NextOneConversation]_vars

\* ------------------------------------------ metadata values of any type
\* update_conversation_metadata takes Dict[str, Any]: a caller passes a
\* number, a tuple or a set as a value
AnyValues == {1, PyTuple, PySet}
AnyMetadataArgs == {[k \in {"tags"} |-> v] : v \in AnyValues}

update_conversation_metadata_any ==
    \E conversation_id \in IdArgs, metadata \in AnyMetadataArgs :
      /\ UpdateConversationMetadata(conversation_id, metadata)
      /\ UNCHANGED concurrent

NextPersist ==
    \/ __init__
    \/ start_conversation
    \/ add_message
    \/ update_conversation_metadata_any
    \/ delete_conversation

\* the store and its file under callers whose metadata values are of any
\* type, on a disk that takes every write
SpecPersist == Init /\ [][NextPersist]_vars

\* ------------------------------------------------- threads and the lock
\* Every public method runs its whole body inside "with self.lock:"
\* (lines 76, 108, 137, 157, 211, 230, 257, 262); the private helpers and
\* save_to_storage take no lock and are called with it held.  A thread in
\* a call is waiting for the lock, inside the body with the lock held, or
\* leaving: the body has returned or raised and the with statement is
\* about to release the lock.
\* The methods the threads call: one that creates and evicts, one that
\* appends and trims, one that reads, two that remove; each has the lock
\* discipline of all eight.
StoreOps ==
    {"start_conversation", "add_message", "get_conversation_history",
     "delete_conversation", "clear_all_conversations"}

\* calls that wait for the lock or have not yet run their body
Pending(op) ==
    Cardinality({t \in Threads : /\ threads[t].op = op
                                 /\ threads[t].pc \in {"waiting", "inside"}})

\* the model has room for one more call of the method: for the message or
\* the conversation and the uuid it can add
Room(op) ==
    /\ op = "add_message" => Stored(conversations) + Pending(op) < MaxStored
    /\ op = "start_conversation" =>
          /\ created + Pending(op) < MaxCreated
          /\ Cardinality(generated) + Pending(op) < MaxUuid

\* the thread calls a method and reaches the with statement
Enter(t) ==
    /\ threads[t].pc = "idle"
    /\ \E op \in StoreOps :
          /\ Room(op)
          /\ threads' = [threads EXCEPT ![t] = [pc |-> "waiting", op |-> op]]
    /\ UNCHANGED <<conversations, limits, storage, disk, now, generated,
                   created, ret, lock, handlers>>

\* mutant: a lock that lets every thread in
LockFree_always(l) == TRUE

\* threading.Lock.acquire returns when no thread holds the lock
LockFree(l) == l = None

Acquire(t) ==
    /\ threads[t].pc = "waiting"
    /\ LockFree(lock)
    /\ lock' = t
    /\ threads' = [threads EXCEPT ![t].pc = "inside"]
    /\ UNCHANGED <<conversations, limits, storage, disk, now, generated,
                   created, ret, handlers>>

\* the body of the method, with the lock held: all of it up to the return
\* or the exception, the eviction pass and the write of the file included
Body(t) ==
    /\ threads[t].pc = "inside"
    /\ LET op == threads[t].op
       IN  \/ /\ op = "start_conversation"
              /\ \E conversation_id \in OptionalIdArgs :
                    StartConversation(conversation_id)
           \/ /\ op = "add_message"
              /\ \E conversation_id \in IdArgs, role \in Roles,
                    content \in Contents, metadata \in MessageMetadataArgs :
                    AddMessage(conversation_id, role, content, metadata)
           \/ /\ op = "get_conversation_history"
              /\ \E conversation_id \in IdArgs, limit \in LimitArgs :
                    GetConversationHistory(conversation_id, limit)
           \/ /\ op = "delete_conversation"
              /\ \E conversation_id \in IdArgs :
                    DeleteConversation(conversation_id)
           \/ /\ op = "clear_all_conversations"
              /\ ClearAllConversations
    /\ threads' = [threads EXCEPT ![t].pc = "leaving"]
    /\ UNCHANGED <<lock, handlers>>

\* mutant: the with statement leaves the lock held
LockRelease_skipped(l) == l

\* __exit__ of the with statement: the lock is free again, whether the
\* body returned or raised
LockRelease(l) == None

Release(t) ==
    /\ threads[t].pc = "leaving"
    /\ lock' = LockRelease(lock)
    /\ threads' = [threads EXCEPT ![t] = IdleThread]
    /\ UNCHANGED <<conversations, limits, storage, disk, now, generated,
                   created, ret, handlers>>

\* a process with the limits of the global instance, on a disk that takes
\* every write or on a full one
InitThreads ==
    /\ max_conversations = DefaultMaxConversations
    /\ max_messages_per_conversation = DefaultMaxMessages
    /\ storage = Missing
    /\ disk \in {"ok", "full"}
    /\ conversations = load_from_storage(storage)
    /\ now = 0
    /\ generated = {}
    /\ created = 0
    /\ ret = Call("__init__", None, None)
    /\ NoThreads

NextThreads ==
    \E t \in Threads :
      \/ Enter(t)
      \/ Acquire(t)
      \/ Body(t)
      \/ Release(t)

\* threads that call the store at the same time, scheduled in any way
SpecThreads == InitThreads /\ [][NextThreads]_vars

\* the same under a fair scheduler: a thread that can run does run, and a
\* thread that waits for a lock that is free again and again gets it
SpecThreadsFair ==
    /\ InitThreads
    /\ [][NextThreads]_vars
    /\ \A t \in Threads :
         /\ SF_vars(Acquire(t))
         /\ WF_vars(Body(t))
         /\ WF_vars(Release(t))

\* ------------------------------------------------------------- api.py
\* create_contextual_query.  The fixed parts of the f-string stand as one
\* character each.
QueryCut == 150
QueryHead == <<"Previous conversation context:\n">>
QueryQuestion == <<"\n\nCurrent question: ">>
QueryTail ==
    <<"\n\nPlease answer the current question considering the conversation context above. If the current question references something from the previous conversation, use that context to provide a more complete answer.">>

\* mutant: the contents go into the query at full length
create_contextual_query_uncut(user_message, conversation_context) ==
    IF DOMAIN conversation_context = {}
       \/ Get(conversation_context, "message_count", 0) <= 1
    THEN user_message
    ELSE LET recent_messages ==
                Get(conversation_context, "recent_messages", <<>>)
         IN  IF recent_messages = <<>> THEN user_message
             ELSE LET last == PySliceLast(recent_messages, 3)
                      context_parts ==
                         [i \in 1..Len(last) |->
                            <<Get(last[i], "role", "unknown"), ": ">>
                              \o Get(last[i], "content", <<>>)]
                      context_string == Join(context_parts, <<"\n">>)
                  IN  QueryHead \o context_string \o QueryQuestion
                        \o user_message \o QueryTail

create_contextual_query(user_message, conversation_context) ==
    IF DOMAIN conversation_context = {}
       \/ Get(conversation_context, "message_count", 0) <= 1
    THEN user_message
    ELSE LET recent_messages ==
                Get(conversation_context, "recent_messages", <<>>)
         IN  IF recent_messages = <<>> THEN user_message
             ELSE LET last == PySliceLast(recent_messages, 3)
                      context_parts ==
                         [i \in 1..Len(last) |->
                            <<Get(last[i], "role", "unknown"), ": ">>
                              \o PySliceFirst(Get(last[i], "content", <<>>),
                                              QueryCut)]
                      context_string == Join(context_parts, <<"\n">>)
                  IN  QueryHead \o context_string \o QueryQuestion
                        \o user_message \o QueryTail

\* the handler calls create_contextual_query with the message of the
\* request and the context it read, which is empty for an unknown id
UserMessages == {<<"q">>}
CallsCreateContextualQuery ==
    /\ \E user_message \in UserMessages,
          conversation_context \in
             {EmptyDict} \cup (IF ret.op = "get_conversation_context"
                               THEN {ret.val} ELSE {}) :
          ret' = Call("create_contextual_query",
                      [user_message |-> user_message,
                       conversation_context |-> conversation_context],
                      create_contextual_query(user_message,
                                              conversation_context))
    /\ UNCHANGED <<conversations, limits, storage, disk, now, generated,
                   created, concurrent>>

NextQuery ==
    \/ get_conversation_context
    \/ CallsCreateContextualQuery

\* create_contextual_query on the contexts of a conversation of up to
\* MaxMessages messages
SpecQuery == InitOneConversation /\ [][NextQuery]_vars

\* ------------------------------------------------- the chat endpoint
\* chat_completions on the global instance of the store.  The handler makes
\* three or four calls of the store, each under the lock, with none held in
\* between: start_conversation when the request names no conversation,
\* add_message for the user, get_conversation_context, and, after the crew
\* has answered, add_message for the assistant.

\* the user message of the r-th request and the answer of the crew to it
Question(r) == [i \in 1..r |-> "q"]
Answer(r) == <<"re: ">> \o Question(r)

\* the ids the clients have seen: those the service drew, but for the ones
\* drawn for a request whose response has not been returned yet
HandedOut ==
    generated \ {handlers[r].conversation_id :
                   r \in {q \in Requests :
                            /\ handlers[q].pc \notin {"new", "done"}
                            /\ ~Truthy(handlers[q].request)}}

\* the conversation_id of a request: none, an empty one, a name the client
\* made up or an id the service handed out
RequestIds == {None, ""} \cup CallerNames \cup HandedOut

\* mutant: the id of the request is ignored
Resuming_never(id) == FALSE

\* line 112, request.conversation_id or start_conversation(): the id of the
\* request is taken as it is when it is truthy
Resuming(id) == Truthy(id)

\* line 112
Starts(r) ==
    /\ handlers[r].pc = "new"
    /\ \E id \in RequestIds :
          IF Resuming(id)
          THEN /\ handlers' = [handlers EXCEPT ![r].pc = "user",
                                               ![r].request = id,
                                               ![r].conversation_id = id]
               /\ UNCHANGED <<conversations, limits, storage, disk, now,
                              generated, created, ret>>
          ELSE /\ StartConversation(None)
               /\ handlers' = [handlers EXCEPT
                                  ![r].pc = "user",
                                  ![r].request = id,
                                  ![r].conversation_id = ret'.val]
    /\ UNCHANGED <<lock, threads>>

\* line 115: the result of add_message is not looked at
AddsUser(r) ==
    /\ handlers[r].pc = "user"
    /\ AddMessage(handlers[r].conversation_id, "user", Question(r), None)
    /\ handlers' = [handlers EXCEPT ![r].pc = "context"]
    /\ UNCHANGED <<lock, threads>>

\* lines 118 to 121
ReadsContext(r) ==
    /\ handlers[r].pc = "context"
    /\ GetConversationContext(handlers[r].conversation_id)
    /\ handlers' = [handlers EXCEPT
                       ![r].pc = "kickoff",
                       ![r].context = ret'.val,
                       ![r].enhanced_query =
                          create_contextual_query(Question(r), ret'.val)]
    /\ UNCHANGED <<lock, threads>>

\* lines 124 to 153: the crew answers, the answer is stored and the
\* response, which names conversation_id, is returned
AddsAssistant(r) ==
    /\ handlers[r].pc = "kickoff"
    /\ AddMessage(handlers[r].conversation_id, "assistant", Answer(r), None)
    /\ handlers' = [handlers EXCEPT ![r].pc = "done"]
    /\ UNCHANGED <<lock, threads>>

chat_completions(r) ==
    \/ Starts(r)
    \/ AddsUser(r)
    \/ ReadsContext(r)
    \/ AddsAssistant(r)

\* POST /conversations
create_conversation ==
    /\ StartConversation(None)
    /\ UNCHANGED concurrent

\* GET /conversations/{id}: the context and the history, or an error when
\* the context is empty
get_conversation ==
    /\ \E conversation_id \in IdArgs :
          LET context == ContextOf(conversations, conversation_id)
              history == HistoryOf(conversations, conversation_id, NoLimit)
          IN  ret' = IF DOMAIN context = {}
                     THEN Raise("get_conversation", conversation_id,
                                "Conversation not found")
                     ELSE Call("get_conversation", conversation_id,
                               [context |-> context, history |-> history])
    /\ UNCHANGED <<conversations, limits, storage, disk, now, generated,
                   created, concurrent>>

\* the service after its start: the global instance, no file
InitChat ==
    /\ max_conversations = DefaultMaxConversations
    /\ max_messages_per_conversation = DefaultMaxMessages
    /\ storage = Missing
    /\ disk = "ok"
    /\ conversations = load_from_storage(storage)
    /\ now = 0
    /\ generated = {}
    /\ created = 0
    /\ ret = Call("__init__", None, None)
    /\ NoThreads

\* no request is being handled
Quiet == \A r \in Requests : handlers[r].pc \in {"new", "done"}

\* clients that send one request after the other: a request arrives when
\* the response to the one before has been returned
NextChatSequential ==
    \/ \E r \in Requests :
          /\ \A q \in Requests \ {r} : handlers[q].pc \in {"new", "done"}
          /\ chat_completions(r)
    \/ Quiet /\ create_conversation
    \/ Quiet /\ delete_conversation
    \/ Quiet /\ get_conversation

SpecChatSequential == InitChat /\ [][NextChatSequential]_vars

\* clients that send requests at any time: the thread pool runs the
\* handlers side by side
NextChat ==
    \/ \E r \in Requests : chat_completions(r)
    \/ create_conversation

SpecChat == InitChat /\ [][NextChat]_vars

\* ----------------------------------------------------------------- claims
\* C1: in every reachable state, also right after the startup load and for
\* every max_messages_per_conversation, 0 included, each conversation holds
\* at most max_messages_per_conversation messages.
C1_MessagesBounded ==
    \A i \in 1..Len(conversations) :
        Len(conversations[i].messages) <= max_messages_per_conversation

\* C2: in every reachable state, also right after the startup load from a
\* snapshot, the store holds at most max_conversations conversations.
C2_ConversationsBounded == Len(conversations) <= max_conversations

\* C3: right after start_conversation returned an id, the id names a
\* conversation of the store that get_conversation_context and
\* get_conversation_history read, whatever max_conversations is.
C3_ReturnedIdReadable ==
    ret.op = "start_conversation" =>
        /\ Known(conversations, ret.val)
        /\ ContextOf(conversations, ret.val) # EmptyDict
        /\ HistoryOf(conversations, ret.val, NoLimit)
             = Lookup(conversations, ret.val).messages

\* C4: an add_message that takes a conversation past
\* max_messages_per_conversation (the max + k-th append, k >= 1) leaves
\* exactly max_messages_per_conversation messages: the last ones of the
\* appended sequence, in their order.
C4_KeepsMostRecentMessages ==
    [][(ret'.op = "add_message" /\ ret'.val = TRUE /\ add_message) =>
        LET old == Lookup(conversations, ret'.arg).messages
            new == Lookup(conversations', ret'.arg).messages
            all == Append(old, new[Len(new)])
            m == max_messages_per_conversation
        IN  Len(all) > m =>
              /\ Len(new) = m
              /\ \A i \in 1..m : new[i] = all[Len(all) - m + i]]_vars

\* last_updated of a conversation that a creating start_conversation step
\* found or made (before the eviction pass) and of one it left
UpdatedBefore(id) ==
    IF Known(conversations, id) THEN Lookup(conversations, id).last_updated
    ELSE now
UpdatedAfter(id) == Lookup(conversations', id).last_updated

\* a step of start_conversation that creates a conversation
Creates ==
    /\ ret'.op = "start_conversation"
    /\ ~(Truthy(ret'.arg) /\ Known(conversations, ret'.arg))
    /\ start_conversation

\* C5, as the spec words it: after max_conversations + k creations exactly
\* max_conversations conversations remain and they are the k most recently
\* updated ones, so there are k of them (stated for max_conversations >= 1).
C5_SurvivorsAreTheKMostRecent ==
    (ret.op = "start_conversation" /\ max_conversations >= 1
        /\ created > max_conversations) =>
        /\ Len(conversations) = max_conversations
        /\ Len(conversations) = created - max_conversations

\* C5, amended: the creation that makes max_conversations + k creations in
\* a row (k >= 1) leaves exactly max_conversations conversations, and they
\* are the max_conversations most recently updated ones: none that went is
\* newer than one that stayed.
C5_KeepsMostRecentConversations ==
    [][(Creates /\ created' > max_conversations) =>
        /\ Len(conversations') = max_conversations
        /\ \A s \in Ids(conversations') :
             \A e \in (Ids(conversations) \cup {ret'.val})
                        \ Ids(conversations') :
                UpdatedBefore(e) <= UpdatedAfter(s)]_vars

C5_Witness ==
    /\ ret.op = "start_conversation"
    /\ max_conversations >= 1
    /\ created > max_conversations
    /\ Len(conversations) = max_conversations
    /\ Known(conversations, ret.val)

\* C6: whenever start_conversation evicts, every evicted conversation has a
\* last_updated no later than that of every conversation that survives the
\* call, and it evicts exactly as many as it takes to come down to
\* max_conversations.
C6_EvictsLeastRecentlyUpdated ==
    [][Creates =>
        LET all == Ids(conversations) \cup {ret'.val}
            gone == all \ Ids(conversations')
        IN  /\ Ids(conversations') \subseteq all
            /\ \A e \in gone : \A s \in Ids(conversations') :
                  UpdatedBefore(e) <= UpdatedAfter(s)
            /\ Cardinality(gone)
                 = Max(0, Cardinality(all) - max_conversations)]_vars

\* an eviction has happened since the last construction, delete or clear,
\* and a conversation that was touched after its creation is still there
\* next to the new one
C6_Witness ==
    /\ ret.op = "start_conversation"
    /\ ret.arg = None
    /\ created > Len(conversations)
    /\ Len(conversations) >= 2
    /\ conversations[1].created_at < conversations[1].last_updated

\* C7: start_conversation(x) with x known returns x and changes nothing in
\* the store or in the file: no message list, metadata or timestamp is
\* reset and no conversation is evicted.
C7_ResumeChangesNothing ==
    [][(ret'.op = "start_conversation" /\ Truthy(ret'.arg)
          /\ Known(conversations, ret'.arg) /\ start_conversation) =>
        /\ ret'.val = ret'.arg
        /\ UNCHANGED <<conversations, storage, generated, created>>]_vars

C7_Witness ==
    /\ ret.op = "start_conversation"
    /\ ret.arg = ret.val
    /\ Known(conversations, ret.val)
    /\ Lookup(conversations, ret.val).messages # <<>>
    /\ Lookup(conversations, ret.val).metadata # EmptyDict
    /\ Len(conversations) > max_conversations

\* C8, as the spec words it: start_conversation with no id or with an id
\* the store does not know generates an identifier that differs from the
\* argument and from every existing id, and returns it.
C8_AlwaysGeneratesAnId ==
    [][Creates =>
        /\ ret'.val # ret'.arg
        /\ ret'.val \notin Ids(conversations)
        /\ generated' = generated \cup {ret'.val}]_vars

\* C8, amended: with no id (or the empty string) start_conversation
\* generates an identifier that no conversation has and that was never
\* generated before; with an id the store does not know it generates
\* nothing and takes the caller's id.  In both cases it returns that
\* identifier, and the conversation it put under it is empty and stamped
\* with the current time; the conversation is in the store after the call
\* unless the eviction pass of the same call took it, which happens only
\* for max_conversations = 0.
C8_GeneratesOnlyWithoutId ==
    [][Creates =>
        /\ IF Truthy(ret'.arg)
           THEN ret'.val = ret'.arg /\ generated' = generated
           ELSE /\ ret'.val \notin Ids(conversations) \cup generated
                /\ ret'.val # ret'.arg
                /\ generated' = generated \cup {ret'.val}
        /\ max_conversations >= 1 => Known(conversations', ret'.val)
        /\ Known(conversations', ret'.val) =>
             Lookup(conversations', ret'.val)
               = NewConversation(ret'.val, now, now)]_vars

\* a conversation stands under a name the caller made up, next to one
\* under a generated id
C8_Witness ==
    /\ ret.op = "start_conversation"
    /\ ret.arg \in CallerNames
    /\ ret.val = ret.arg
    /\ ret.val \notin generated
    /\ Known(conversations, ret.val)
    /\ Lookup(conversations, ret.val).messages = <<>>
    /\ Ids(conversations) \cap generated # {}

\* C9: the identifiers that start_conversation calls without an id return
\* are pairwise distinct (generated holds all that were returned so far),
\* and such a call never lands on an id that a conversation already has.
C9_GeneratedIdsDistinct ==
    [][(ret'.op = "start_conversation" /\ ~Truthy(ret'.arg)
          /\ start_conversation) =>
        /\ ret'.val \notin generated
        /\ ret'.val \notin Ids(conversations)
        /\ generated' = generated \cup {ret'.val}]_vars

C9_Witness ==
    /\ ret.op = "start_conversation"
    /\ ~Truthy(ret.arg)
    /\ Cardinality(generated) >= 2
    /\ Len(conversations) >= 2

\* C10: add_message, update_conversation_metadata and delete_conversation
\* with an id that is not in the store return False and leave the store
\* and the file as they are; get_conversation_history and
\* get_conversation_context with such an id return the empty list and the
\* empty mapping.
C10_UnknownIdSafety ==
    [][/\ (/\ ret'.op \in {"add_message", "update_conversation_metadata",
                            "delete_conversation"}
            /\ ~Known(conversations, ret'.arg)
            /\ (add_message \/ update_conversation_metadata
                   \/ delete_conversation)) =>
              /\ ret'.val = FALSE
              /\ UNCHANGED <<conversations, storage, generated>>
       /\ (/\ ret'.op = "get_conversation_history"
            /\ ~Known(conversations, ret'.arg)
            /\ get_conversation_history) =>
              /\ ret'.val = <<>>
              /\ UNCHANGED <<conversations, storage, generated>>
       /\ (/\ ret'.op = "get_conversation_context"
            /\ ~Known(conversations, ret'.arg)
            /\ get_conversation_context) =>
              /\ ret'.val = EmptyDict
              /\ UNCHANGED <<conversations, storage, generated>>]_vars

C10_Witness ==
    /\ ret.op = "delete_conversation"
    /\ ret.val = FALSE
    /\ ret.arg \in generated
    /\ conversations # <<>>
    /\ storage = JsonDump(conversations)

C12_LastUpdatedNeverDecreases ==
    [][/\ \A i \in 1..Len(conversations) :
            Known(conversations', conversations[i].id) =>
               Lookup(conversations', conversations[i].id).last_updated
                 >= conversations[i].last_updated
       /\ (/\ ret'.op \in {"add_message", "update_conversation_metadata"}
            /\ Known(conversations, ret'.arg)
            /\ (add_message \/ update_conversation_metadata)) =>
              /\ ret'.val = TRUE
              /\ Lookup(conversations', ret'.arg).last_updated = now]_vars

\* C13: get_conversation_history on a known id with n stored messages
\* returns, in the stored order, the last min(limit, n) of them when a
\* limit is given, 0 and limits above n included, and all n without a
\* limit.
C13_HistoryIsLastMinLimitN ==
    [][(ret'.op = "get_conversation_history"
          /\ Known(conversations, ret'.arg) /\ get_conversation_history) =>
        LET messages == Lookup(conversations, ret'.arg).messages
            n == Len(messages)
            k == IF ret'.limit = NoLimit THEN n ELSE Min(ret'.limit, n)
        IN  /\ Len(ret'.val) = k
            /\ \A i \in 1..k : ret'.val[i] = messages[n - k + i]]_vars

\* messages i..j, each as role, ": " and the first 200 characters of its
\* content, with " | " between two of them
RECURSIVE Rendered(_, _, _)
Rendered(messages, i, j) ==
    LET content == messages[i].content
        part == <<messages[i].role, ": ">>
                  \o [c \in 1..Min(200, Len(content)) |-> content[c]]
    IN  IF i >= j THEN part
        ELSE part \o <<" | ">> \o Rendered(messages, i + 1, j)

\* C14: get_conversation_context on a known id with n stored messages
\* returns message_count = n, recent_messages = the last min(5, n)
\* messages in order and context_summary = the last min(3, n) messages as
\* "role: content", the content cut to 200 characters, joined with " | ";
\* for n = 0 the summary is the fixed sentence and recent_messages is
\* empty.  The id, last_updated and the metadata are those of the same
\* state of the conversation.
C14_ContextOfKnownId ==
    [][(ret'.op = "get_conversation_context"
          /\ Known(conversations, ret'.arg) /\ get_conversation_context) =>
        LET conv == Lookup(conversations, ret'.arg)
            messages == conv.messages
            n == Len(messages)
            r == Min(5, n)
            k == Min(3, n)
            context == ret'.val
        IN  /\ context.conversation_id = ret'.arg
            /\ context.message_count = n
            /\ Len(context.recent_messages) = r
            /\ \A i \in 1..r :
                  context.recent_messages[i] = messages[n - r + i]
            /\ context.context_summary
                 = IF n = 0 THEN <<"No previous conversation context.">>
                   ELSE Rendered(messages, n - k + 1, n)
            /\ context.last_updated = conv.last_updated
            /\ context.metadata = conv.metadata]_vars

\* the context of a conversation with more messages than either window,
\* one of the last three longer than the cut
C14_Witness ==
    /\ ret.op = "get_conversation_context"
    /\ Known(conversations, ret.arg)
    /\ ret.val.message_count > 5
    /\ Len(ret.val.recent_messages) = 5
    /\ LET messages == Lookup(conversations, ret.arg).messages
           n == Len(messages)
       IN  /\ n = ret.val.message_count
           /\ Len(messages[n - 1].content) > 200
           /\ messages[n - 2].role # messages[n].role
           /\ Len(ret.val.context_summary)
                < Len(messages[n - 2].content) + Len(messages[n - 1].content)
                    + Len(messages[n].content) + 8

\* C15: update_conversation_metadata on a known id returns True and
\* merges: afterwards every key of the supplied mapping has the supplied
\* value and every key stored before that the mapping does not have keeps
\* its value (and there are no other keys); the messages and the rest of
\* the conversation are unchanged, except last_updated, which is the
\* current time.
C15_MetadataMerged ==
    [][(ret'.op = "update_conversation_metadata"
          /\ Known(conversations, ret'.arg)
          /\ update_conversation_metadata) =>
        LET old == Lookup(conversations, ret'.arg)
            new == Lookup(conversations', ret'.arg)
        IN  /\ ret'.val = TRUE
            /\ ret'.exc = None
            /\ \E metadata \in MetadataArgs :
                  /\ DOMAIN new.metadata
                       = DOMAIN old.metadata \cup DOMAIN metadata
                  /\ \A k \in DOMAIN metadata :
                        new.metadata[k] = metadata[k]
                  /\ \A k \in DOMAIN old.metadata \ DOMAIN metadata :
                        new.metadata[k] = old.metadata[k]
            /\ new.messages = old.messages
            /\ new.last_updated = now
            /\ new = [old EXCEPT !.metadata = new.metadata,
                                 !.last_updated = now]
            /\ Ids(conversations') = Ids(conversations)]_vars

\* an update overwrote one stored key and left the other, on a
\* conversation with messages, later than its creation
C15_Witness ==
    /\ ret.op = "update_conversation_metadata"
    /\ ret.val = TRUE
    /\ LET conv == Lookup(conversations, ret.arg)
       IN  /\ DOMAIN conv.metadata = {"topic", "lang"}
           /\ conv.metadata["topic"] = 1
           /\ conv.metadata["lang"] = 2
           /\ conv.messages # <<>>
           /\ conv.last_updated > conv.created_at

\* C16: delete_conversation on a known id returns True and removes that
\* conversation with its messages; the other conversations stay as they
\* were, in their order.  From then on the id is unknown until a
\* start_conversation puts it back, and while it is unknown
\* get_conversation_history returns [], get_conversation_context returns
\* {} and delete_conversation returns False for it.
C16_DeleteRemoves ==
    [][/\ (/\ ret'.op = "delete_conversation"
            /\ Known(conversations, ret'.arg)
            /\ delete_conversation) =>
              /\ ret'.val = TRUE
              /\ ret'.exc = None
              /\ ~Known(conversations', ret'.arg)
              /\ Len(conversations') = Len(conversations) - 1
              /\ \A i \in 1..Len(conversations) :
                    conversations[i].id # ret'.arg =>
                      /\ Known(conversations', conversations[i].id)
                      /\ Lookup(conversations', conversations[i].id)
                           = conversations[i]
              /\ \A i, j \in 1..Len(conversations') :
                    i < j =>
                      \E k, l \in 1..Len(conversations) :
                         /\ k < l
                         /\ conversations[k] = conversations'[i]
                         /\ conversations[l] = conversations'[j]
              /\ \A limit \in LimitArgs :
                    HistoryOf(conversations', ret'.arg, limit) = <<>>
              /\ ContextOf(conversations', ret'.arg) = EmptyDict
       /\ \A id \in CallerNames \cup Uuids :
            (~Known(conversations, id) /\ Known(conversations', id)) =>
               /\ ret'.op = "start_conversation"
               /\ ret'.val = id
       /\ (/\ ret'.op = "delete_conversation"
            /\ ~Known(conversations, ret'.arg)
            /\ delete_conversation) =>
              ret'.val = FALSE /\ conversations' = conversations
       /\ (/\ ret'.op = "get_conversation_history"
            /\ ~Known(conversations, ret'.arg)
            /\ get_conversation_history) => ret'.val = <<>>
       /\ (/\ ret'.op = "get_conversation_context"
            /\ ~Known(conversations, ret'.arg)
            /\ get_conversation_context) => ret'.val = EmptyDict]_vars

\* a conversation was deleted and another one, which holds metadata, is
\* still there
C16_Witness ==
    /\ ret.op = "delete_conversation"
    /\ ret.val = TRUE
    /\ ~Known(conversations, ret.arg)
    /\ Len(conversations) >= 1
    /\ \E i \in 1..Len(conversations) :
          conversations[i].metadata # EmptyDict
    /\ \E i \in 1..Len(conversations) : conversations[i].messages # <<>>
    /\ storage = JsonDump(conversations)

\* C17: what the read operations return are snapshots: a caller that
\* writes to the mapping get_all_conversations returned, to a record, a
\* message list or a metadata mapping in it, or to what
\* get_conversation_history or get_conversation_context returned, does not
\* change the store.
C17_ReadsAreSnapshots ==
    [][CallerMutates => conversations' = conversations]_vars

\* a step of a call that changes the store: a creating start_conversation,
\* an add_message, update_conversation_metadata or delete_conversation
\* that returns True, or clear_all_conversations
Mutates ==
    \/ Creates
    \/ /\ ret'.op \in {"add_message", "update_conversation_metadata",
                        "delete_conversation"}
       /\ ret'.val = TRUE
       /\ (add_message \/ update_conversation_metadata
              \/ delete_conversation)
    \/ /\ ret'.op = "clear_all_conversations"
       /\ clear_all_conversations

C19_WriteFailureKeepsCall ==
    [][disk # "ok" =>
        /\ Creates =>
              /\ ret'.exc = None
              /\ Truthy(ret'.val)
              /\ Known(conversations', ret'.val)
              /\ ContextOf(conversations', ret'.val) # EmptyDict
        /\ (/\ ret'.op = "add_message"
             /\ Known(conversations, ret'.arg)
             /\ add_message) =>
              /\ ret'.exc = None
              /\ ret'.val = TRUE
              /\ LET history == HistoryOf(conversations', ret'.arg, NoLimit)
                 IN  /\ history # <<>>
                     /\ history[Len(history)].timestamp = now
        /\ (/\ ret'.op = "update_conversation_metadata"
             /\ Known(conversations, ret'.arg)
             /\ update_conversation_metadata) =>
              /\ ret'.exc = None
              /\ ret'.val = TRUE
              /\ \E metadata \in MetadataArgs :
                    \A k \in DOMAIN metadata :
                       LET seen == ContextOf(conversations', ret'.arg).metadata
                       IN  k \in DOMAIN seen /\ seen[k] = metadata[k]
        /\ (/\ ret'.op = "delete_conversation"
             /\ Known(conversations, ret'.arg)
             /\ delete_conversation) =>
              /\ ret'.exc = None
              /\ ret'.val = TRUE
              /\ ~Known(conversations', ret'.arg)
        /\ (ret'.op = "clear_all_conversations"
               /\ clear_all_conversations) =>
              /\ ret'.exc = None
              /\ conversations' = <<>>]_vars

\* the fields of a conversation record, and a file that holds a mapping of
\* such records
RecordFields ==
    {"id", "created_at", "last_updated", "messages", "context", "metadata"}
IsSnapshot(file) ==
    /\ file.status = "ok"
    /\ \A i \in 1..Len(file.data) : DOMAIN file.data[i] = RecordFields

\* C20: a store constructed over a file that is missing, does not parse or
\* parses to something that is not a mapping of conversation records is
\* empty, and no call on a store started that way ends with an exception.
C20_StartsEmptyOnBadSnapshot ==
    /\ (ret.op = "__init__" /\ ~IsSnapshot(storage)) =>
          conversations = <<>>
    /\ ret.exc = None

\* C21: round-trip durability.  When the file is what the last write of the
\* present state left (the write succeeded), a store constructed from the
\* file holds the state the old one held: the same ids, messages, metadata
\* and timestamps.
C21_RoundTrip ==
    [][(ret'.op = "__init__" /\ storage.status = "ok"
          /\ storage = JsonDump(conversations))
        => conversations' = conversations]_vars

\* the threads that hold the lock: inside a body or leaving it
InCriticalSection ==
    {t \in Threads : threads[t].pc \in {"inside", "leaving"}}

\* the step is the body of an add_message call of thread t that returns True
AddsMessage(t) ==
    /\ threads[t].pc = "inside"
    /\ threads[t].op = "add_message"
    /\ threads'[t].pc = "leaving"
    /\ ret'.val = TRUE

OnAnotherId(id) ==
    \/ /\ ret'.op = "start_conversation"
       /\ ret'.arg # id
       /\ ret'.val # id
    \/ /\ ret'.op \in {"add_message", "get_conversation_history",
                        "get_conversation_context",
                        "update_conversation_metadata",
                        "delete_conversation"}
       /\ ret'.arg # id

\* C23: the calls on one id are linearizable for their caller also while
\* other callers work on other ids: a call that names another conversation
\* leaves this one as the caller's last call left it, so the caller's next
\* call sees what its earlier ones did (after add_message returned True,
\* get_conversation_history has the message).
C23_OtherIdsDoNotInterfere ==
    [][\A id \in Ids(conversations) :
         OnAnotherId(id) =>
           /\ Known(conversations', id)
           /\ Lookup(conversations', id) = Lookup(conversations, id)]_vars

\* C23 as amended: a call that names another conversation leaves this one
\* as it was or, when it is a start_conversation that creates one and takes
\* the store over max_conversations, evicts it whole; it never changes it.
C23_OtherIdsOnlyEvict ==
    [][\A id \in Ids(conversations) :
         OnAnotherId(id) =>
           IF Known(conversations', id)
           THEN Lookup(conversations', id) = Lookup(conversations, id)
           ELSE /\ ret'.op = "start_conversation"
                /\ Len(conversations) >= max_conversations
                /\ ~Resumes(conversations, ret'.arg)]_vars

\* a caller's conversation holds its message, untouched, after other
\* callers created a conversation and appended to it
C23_Witness ==
    /\ ret.op = "add_message" /\ ret.val = TRUE
    /\ Len(conversations) = 2
    /\ \A i \in 1..2 : conversations[i].messages # <<>>

\* the block of the query: the messages from the i-th on, one line each,
\* the role, the content up to its 150th character
RECURSIVE QueryLines(_, _)
QueryLines(messages, i) ==
    IF i > Len(messages) THEN <<>>
    ELSE LET content == messages[i].content
             line == <<messages[i].role, ": ">>
                       \o SubSeq(content, 1, Min(Len(content), QueryCut))
         IN  IF i = Len(messages) THEN line
             ELSE line \o <<"\n">> \o QueryLines(messages, i + 1)

\* C24: create_contextual_query returns the user message itself when the
\* context is empty or counts at most one message; when it counts more, the
\* query is the labelled block of the last three of recent_messages, each
\* as its role and its content cut to 150 characters, followed by the
\* question.
C24_ContextualQuery ==
    ret.op = "create_contextual_query" =>
      LET user_message == ret.arg.user_message
          context == ret.arg.conversation_context
      IN  IF DOMAIN context = {} THEN ret.val = user_message
          ELSE IF context.message_count <= 1 THEN ret.val = user_message
          ELSE LET recent == context.recent_messages
                   first == Max(1, Len(recent) - 2)
               IN  ret.val = QueryHead \o QueryLines(recent, first)
                               \o QueryQuestion \o user_message
                               \o QueryTail

\* a query over a context of more than three recent messages, the last of
\* them longer than the cut
C24_Witness ==
    /\ ret.op = "create_contextual_query"
    /\ DOMAIN ret.arg.conversation_context # {}
    /\ LET recent == ret.arg.conversation_context.recent_messages
       IN  /\ Len(recent) = 5
           /\ Len(recent[5].content) > QueryCut
           /\ Len(recent[3].content) = 1
           /\ Len(recent[4].content) = 1
           /\ Len(ret.val) = 4 + (2 + 1) + 1 + (2 + 1) + 1 + (2 + QueryCut)

\* the requests that were answered with the conversation id
Completed(id) ==
    {r \in Requests : /\ handlers[r].pc = "done"
                      /\ handlers[r].conversation_id = id}

C26_ResponseNamesStoredConversation ==
    [][\A r \in Requests :
         (handlers[r].pc # "done" /\ handlers'[r].pc = "done") =>
           /\ Known(conversations', handlers'[r].conversation_id)
           /\ LET messages ==
                     Lookup(conversations',
                            handlers'[r].conversation_id).messages
              IN  \E i, j \in 1..Len(messages) :
                    /\ i < j
                    /\ messages[i].role = "user"
                    /\ messages[i].content = Question(r)
                    /\ messages[j].role = "assistant"
                    /\ messages[j].content = Answer(r)]_vars

\* C29: requests for one conversation handled side by side behave as if
\* each ran alone: the context a handler reads of a known conversation ends
\* with the user message of its own request, and the answer it stores comes
\* directly after that message.
C29_HandlersDoNotInterleave ==
    [][\A r \in Requests :
         /\ (handlers[r].pc = "context" /\ handlers'[r].pc = "kickoff"
               /\ DOMAIN handlers'[r].context # {})
             => LET recent == handlers'[r].context.recent_messages
                IN  /\ recent # <<>>
                    /\ recent[Len(recent)].role = "user"
                    /\ recent[Len(recent)].content = Question(r)
         /\ (handlers[r].pc = "kickoff" /\ handlers'[r].pc = "done"
               /\ Known(conversations', handlers[r].conversation_id))
             => LET messages ==
                      Lookup(conversations',
                             handlers[r].conversation_id).messages
                    n == Len(messages)
                IN  /\ n >= 2
                    /\ messages[n].content = Answer(r)
                    /\ messages[n - 1].role = "user"
                    /\ messages[n - 1].content = Question(r)]_vars

C30_FailedWriteKeepsSnapshot ==
    [][storage.status = "ok" => storage'.status = "ok"]_vars

====
